---- MODULE Spec2Model ----
(***************************************************************************)
(* A model of the `compute` crate's numerical core: the GLM fitting loop   *)
(* (predict/glm/glm.rs), the Cholesky decomposition                        *)
(* (linalg/decomposition/cholesky.rs) and the Dot trait's matrix products  *)
(* (linalg/array/dot.rs).                                                  *)
(*                                                                         *)
(* f64 values are modelled as exact extended rationals <<num, den>>:       *)
(*   den > 0   a finite value num/den in lowest terms,                     *)
(*   <<1,0>>   +infinity,  <<-1,0>>  -infinity,  <<0,0>>  NaN.             *)
(* Rounding and signed zeros are not modelled; NaN and the infinities      *)
(* follow IEEE 754.                                                        *)
(***************************************************************************)
EXTENDS Integers, Sequences, FiniteSets, TLC

\* ------------------------------------------------------------------------
\* f64 arithmetic
\* ------------------------------------------------------------------------

NaN == <<0, 0>>

INFINITY == <<1, 0>>

NEG_INFINITY == <<-1, 0>>

IAbs(i) == IF i < 0 THEN -i ELSE i

ISign(i) == IF i < 0 THEN -1 ELSE IF i > 0 THEN 1 ELSE 0

RECURSIVE GCD(_, _)
GCD(a, b) == IF b = 0 THEN a ELSE GCD(b, a % b)

\* the f64 nearest to num/den, den # 0 (exact in this model)
Norm(num, den) ==
    LET g == GCD(IAbs(num), IAbs(den))
        s == ISign(den)
    IN  <<(s * num) \div g, IAbs(den) \div g>>

\* an integer literal as f64
R(i) == <<i, 1>>

is_nan(a) == a = NaN

is_infinite(a) == a[2] = 0 /\ a[1] # 0

is_finite(a) == a[2] > 0

FNeg(a) == <<-a[1], a[2]>>

FAbs(a) == <<IAbs(a[1]), a[2]>>

FAdd(a, b) ==
    IF is_nan(a) \/ is_nan(b) THEN NaN
    ELSE IF is_infinite(a) /\ is_infinite(b) THEN (IF a = b THEN a ELSE NaN)
    ELSE IF is_infinite(a) THEN a
    ELSE IF is_infinite(b) THEN b
    ELSE LET g == GCD(a[2], b[2])
         IN  Norm(a[1] * (b[2] \div g) + b[1] * (a[2] \div g), a[2] * (b[2] \div g))

FSub(a, b) == FAdd(a, FNeg(b))

FMul(a, b) ==
    IF is_nan(a) \/ is_nan(b) THEN NaN
    ELSE IF is_infinite(a) \/ is_infinite(b)
         THEN (IF a[1] = 0 \/ b[1] = 0 THEN NaN
               ELSE <<ISign(a[1]) * ISign(b[1]), 0>>)
    ELSE LET g1 == GCD(IAbs(a[1]), b[2])
             g2 == GCD(IAbs(b[1]), a[2])
         IN  <<(a[1] \div g1) * (b[1] \div g2), (a[2] \div g2) * (b[2] \div g1)>>

FDiv(a, b) ==
    IF is_nan(a) \/ is_nan(b) THEN NaN
    ELSE IF is_infinite(b) THEN (IF is_infinite(a) THEN NaN ELSE R(0))
    ELSE IF b[1] = 0 THEN (IF a[1] = 0 THEN NaN ELSE <<ISign(a[1]), 0>>)
    ELSE IF is_infinite(a) THEN <<ISign(a[1]) * ISign(b[1]), 0>>
    ELSE FMul(a, <<ISign(b[1]) * b[2], IAbs(b[1])>>)

\* an/ad < bn/bd for ad, bd > 0, by comparing the continued fractions
RECURSIVE RatLt(_, _, _, _)
RatLt(an, ad, bn, bd) ==
    LET qa == an \div ad
        qb == bn \div bd
        ra == an % ad
        rb == bn % bd
    IN  IF qa # qb THEN qa < qb
        ELSE IF rb = 0 THEN FALSE
        ELSE IF ra = 0 THEN TRUE
        ELSE RatLt(bd, rb, ad, ra)

\* a < b; every comparison with NaN is false
FLt(a, b) ==
    IF is_nan(a) \/ is_nan(b) THEN FALSE
    ELSE IF a = b THEN FALSE
    ELSE IF a = NEG_INFINITY \/ b = INFINITY THEN TRUE
    ELSE IF a = INFINITY \/ b = NEG_INFINITY THEN FALSE
    ELSE RatLt(a[1], a[2], b[1], b[2])

FGt(a, b) == FLt(b, a)

\* a == b in f64: NaN differs from everything, itself included
FEq(a, b) == ~is_nan(a) /\ ~is_nan(b) /\ a = b

ISqrt(k) == CHOOSE r \in 0..k : r * r = k

\* f64::sqrt, defined on the values whose root is exactly representable
FSqrt(a) ==
    IF is_nan(a) \/ a[1] < 0 THEN NaN
    ELSE IF a = INFINITY THEN INFINITY
    ELSE <<ISqrt(a[1]), ISqrt(a[2])>>

\* ------------------------------------------------------------------------
\* Option<T>:  None is <<>>,  Some(v) is <<v>>
\* ------------------------------------------------------------------------

None == <<>>

Some(v) == <<v>>

is_some(o) == Len(o) = 1

unwrap(o) == o[1]

\* ------------------------------------------------------------------------
\* vector helpers (linalg vops, statistics)
\* ------------------------------------------------------------------------

vadd(u, v) == [i \in 1..Len(u) |-> FAdd(u[i], v[i])]

vsub(u, v) == [i \in 1..Len(u) |-> FSub(u[i], v[i])]

vmul(u, v) == [i \in 1..Len(u) |-> FMul(u[i], v[i])]

vdiv(u, v) == [i \in 1..Len(u) |-> FDiv(u[i], v[i])]

RECURSIVE SumTo(_, _)
SumTo(v, k) == IF k = 0 THEN R(0) ELSE FAdd(SumTo(v, k - 1), v[k])

sum(v) == SumTo(v, Len(v))

mean(v) == FDiv(sum(v), R(Len(v)))

\* dot product of two equal-length slices
dot(u, v) == sum(vmul(u, v))

\* vec![c; k]
Fill(c, k) == [i \in 1..k |-> c]

\* a vector of integer literals as Vec<f64>
RV(v) == [i \in 1..Len(v) |-> R(v[i])]

\* ------------------------------------------------------------------------
\* linalg utilities used by the GLM
\* ------------------------------------------------------------------------

\* is_matrix(x, n): Ok(number of columns) when x splits into n rows
is_matrix_ok(x, n) == n > 0 /\ Len(x) > 0 /\ Len(x) % n = 0

is_matrix(x, n) == Len(x) \div n

\* is_design(x, n): the first column of x is exactly 1 in every row
is_design(x, n) ==
    LET p == is_matrix(x, n)
    IN  \A i \in 0..(n - 1) : FEq(x[i * p + 1], R(1))

\* matmul(a, b, rows_a, rows_b, transpose_a, transpose_b), flattened row-major
matmul(a, b, rows_a, rows_b, ta, tb) ==
    LET cols_a == Len(a) \div rows_a
        cols_b == Len(b) \div rows_b
        m      == IF ta THEN cols_a ELSE rows_a
        k      == IF ta THEN rows_a ELSE cols_a
        w      == IF tb THEN rows_b ELSE cols_b
        A(i, l) == IF ta THEN a[(l - 1) * cols_a + i] ELSE a[(i - 1) * cols_a + l]
        B(l, j) == IF tb THEN b[(j - 1) * cols_b + l] ELSE b[(l - 1) * cols_b + j]
    IN  [idx \in 1..(m * w) |->
            LET i == ((idx - 1) \div w) + 1
                j == ((idx - 1) % w) + 1
            IN  sum([l \in 1..k |-> FMul(A(i, l), B(l, j))])]

\* solve(a, b): the x with a*x = b for a symmetric positive-definite a.
\* In exact arithmetic the Cholesky-based solve (factor, forward and back
\* substitution) returns the unique solution, computed here by elimination.
RECURSIVE solve(_, _)
solve(a, b) ==
    LET p == Len(b)
        At(i, j) == a[(i - 1) * p + j]
    IN  IF p = 1 THEN <<FDiv(b[1], a[1])>>
        ELSE LET q    == p - 1
                 a2   == [idx \in 1..(q * q) |->
                            LET i == ((idx - 1) \div q) + 2
                                j == ((idx - 1) % q) + 2
                            IN  FSub(At(i, j), FDiv(FMul(At(i, 1), At(1, j)), At(1, 1)))]
                 b2   == [i \in 1..q |->
                            FSub(b[i + 1], FDiv(FMul(At(i + 1, 1), b[1]), At(1, 1)))]
                 rest == solve(a2, b2)
                 acc  == sum([j \in 1..q |-> FMul(At(1, j + 1), rest[j])])
             IN  <<FDiv(FSub(b[1], acc), At(1, 1))>> \o rest

\* ------------------------------------------------------------------------
\* ExponentialFamily (the Gaussian member: identity link, unit variance)
\* ------------------------------------------------------------------------

Families == {"Gaussian"}

inv_link(family, nu) == CASE family = "Gaussian" -> nu

d_inv_link(family, nu, mu) == CASE family = "Gaussian" -> Fill(R(1), Len(nu))

variance(family, mu) == CASE family = "Gaussian" -> Fill(R(1), Len(mu))

deviance(family, y, mu) ==
    CASE family = "Gaussian" -> sum([i \in 1..Len(y) |-> FMul(FSub(y[i], mu[i]), FSub(y[i], mu[i]))])

\* deviance + alpha * sum(coef[1..]^2), the intercept coef[0] excluded
penalized_deviance(family, y, mu, alpha, coef) ==
    FAdd(deviance(family, y, mu),
         FMul(alpha, sum([i \in 1..(Len(coef) - 1) |-> FMul(coef[i + 1], coef[i + 1])])))

\* ------------------------------------------------------------------------
\* GLM
\* ------------------------------------------------------------------------

DEFAULT_TOLERANCE == <<1, 100000>>

\* GLM::new
GLM_new(family) ==
    [family |-> family, alpha |-> R(0), tolerance |-> DEFAULT_TOLERANCE,
     weights |-> None, offsets |-> None,
     coef |-> None, deviance |-> None, information_matrix |-> None]

\* has_converged with the early return inverted
has_converged_eager(self, loss, loss_previous, tolerance) ==
    IF is_infinite(loss_previous) THEN TRUE
    ELSE LET rel_change == FDiv(FAbs(FSub(loss, loss_previous)), loss_previous)
         IN  FLt(rel_change, tolerance)

\* has_converged comparing the signed relative change
has_converged_signed(self, loss, loss_previous, tolerance) ==
    IF is_infinite(loss_previous) THEN FALSE
    ELSE LET rel_change == FDiv(FSub(loss, loss_previous), loss_previous)
         IN  FLt(rel_change, tolerance)

has_converged(self, loss, loss_previous, tolerance) ==
    IF is_infinite(loss_previous) THEN FALSE
    ELSE LET rel_change == FDiv(FAbs(FSub(loss, loss_previous)), loss_previous)
         IN  FLt(rel_change, tolerance)

\* the inner loop of compute_dbeta for column i_p after k rows
RECURSIVE dbeta_acc(_, _, _, _, _)
dbeta_acc(x, working_residuals, p, i_p, k) ==
    IF k = 0 THEN R(0)
    ELSE FSub(dbeta_acc(x, working_residuals, p, i_p, k - 1),
              FMul(x[(k - 1) * p + i_p], working_residuals[k]))

compute_dbeta(self, x, y, mu, dmu, var, weights) ==
    LET n == Len(y)
        p == is_matrix(x, n)
        working_residuals == vmul(vmul(weights, vsub(y, mu)), vdiv(dmu, var))
    IN  [i_p \in 1..p |-> dbeta_acc(x, working_residuals, p, i_p, n)]

compute_ddbeta(self, x, y, dmu, var, weights) ==
    LET n == Len(y)
        p == is_matrix(x, n)
        working_weights == vdiv(vmul(weights, vmul(dmu, dmu)), var)
        weighted_x == [idx \in 1..Len(x) |->
                          FMul(x[idx], working_weights[((idx - 1) \div p) + 1])]
    IN  matmul(x, weighted_x, n, n, TRUE, FALSE)

\* apply_dbeta_penalty with the loop started at the intercept
apply_dbeta_penalty_from_zero(self, dbeta, coef) ==
    [i \in 1..Len(dbeta) |-> IF i <= Len(coef) THEN FAdd(dbeta[i], coef[i]) ELSE dbeta[i]]

apply_dbeta_penalty(self, dbeta, coef) ==
    [i \in 1..Len(dbeta) |-> IF i >= 2 /\ i <= Len(coef) THEN FAdd(dbeta[i], coef[i]) ELSE dbeta[i]]

apply_ddbeta_penalty(self, ddbeta, n_predictors) ==
    [idx \in 1..Len(ddbeta) |->
        IF (idx - 1) \div n_predictors = (idx - 1) % n_predictors
        THEN FAdd(ddbeta[idx], self.alpha) ELSE ddbeta[idx]]

\* ------------------------------------------------------------------------
\* GLM::fit, one definition per step of the body.  A call is the record
\*   [self |-> the GLM, fr |-> the locals of the call, pc |-> the position]
\* and each step maps the call to the call after the step.
\* ------------------------------------------------------------------------

Unset == <<>>

\* the locals of a fit call on entry; old is the (coef, deviance,
\* information_matrix) the model held when the call was made
Frame(self, x, y, max_iter) ==
    [x |-> x, y |-> y, max_iter |-> max_iter,
     n |-> 0, p |-> 0, weights |-> Unset, coef |-> Unset,
     penalized_deviance |-> Unset, penalized_deviance_previous |-> Unset,
     is_converged |-> FALSE, n_iter |-> 0,
     nu |-> Unset, mu |-> Unset, dmu |-> Unset, var |-> Unset,
     dbeta |-> Unset, ddbeta |-> Unset,
     err |-> "",
     old |-> [coef |-> self.coef, deviance |-> self.deviance,
              information_matrix |-> self.information_matrix]]

NoFrame == Frame(GLM_new("Gaussian"), Unset, Unset, 0)

Panic(t, msg) == [t EXCEPT !.pc = "panicked", !.fr.err = msg]

\* let n = y.len(); let p = is_matrix(x, n).unwrap();
fit_entry(t) ==
    LET n == Len(t.fr.y)
    IN  IF ~is_matrix_ok(t.fr.x, n) THEN Panic(t, "x is not a matrix")
        ELSE [t EXCEPT !.fr.n = n, !.fr.p = is_matrix(t.fr.x, n), !.pc = "check_design"]

\* fit without the is_design assertion
fit_check_design_skipped(t) == [t EXCEPT !.pc = "weights"]

\* assert!(is_design(x, n), "x is not a design matrix");
fit_check_design(t) ==
    IF ~is_design(t.fr.x, t.fr.n) THEN Panic(t, "x is not a design matrix")
    ELSE [t EXCEPT !.pc = "weights"]

\* fit with the default weights vec![0.; n]
fit_weights_zero_default(t) ==
    IF is_some(t.self.weights)
    THEN IF Len(unwrap(t.self.weights)) # t.fr.n THEN Panic(t, "wrong number of weights")
         ELSE [t EXCEPT !.fr.weights = unwrap(t.self.weights), !.pc = "init"]
    ELSE [t EXCEPT !.fr.weights = Fill(R(0), t.fr.n), !.pc = "init"]

\* let weights = if let Some(w) = &self.weights { assert_eq!(..); w } else { vec![1.; n] };
fit_weights(t) ==
    IF is_some(t.self.weights)
    THEN IF Len(unwrap(t.self.weights)) # t.fr.n THEN Panic(t, "wrong number of weights")
         ELSE [t EXCEPT !.fr.weights = unwrap(t.self.weights), !.pc = "init"]
    ELSE [t EXCEPT !.fr.weights = Fill(R(1), t.fr.n), !.pc = "init"]

\* fit clearing the fitted outputs of the model before its first iteration
fit_init_clearing(t) ==
    [t EXCEPT !.self.coef = None,
              !.self.deviance = None,
              !.self.information_matrix = None,
              !.fr.coef = [i \in 1..t.fr.p |-> IF i = 1 THEN mean(t.fr.y) ELSE R(0)],
              !.fr.penalized_deviance = INFINITY,
              !.fr.is_converged = FALSE,
              !.fr.n_iter = 0,
              !.pc = "nu"]

\* fit warm-started from the coefficients of an earlier fit
fit_init_warm(t) ==
    [t EXCEPT !.fr.coef = IF is_some(t.self.coef) /\ Len(unwrap(t.self.coef)) = t.fr.p
                          THEN unwrap(t.self.coef)
                          ELSE [i \in 1..t.fr.p |-> IF i = 1 THEN mean(t.fr.y) ELSE R(0)],
              !.fr.penalized_deviance = INFINITY,
              !.fr.is_converged = FALSE,
              !.fr.n_iter = 0,
              !.pc = "nu"]

\* coef = [mean(y), 0, ..]; penalized_deviance = INFINITY; n_iter = 0
fit_init(t) ==
    [t EXCEPT !.fr.coef = [i \in 1..t.fr.p |-> IF i = 1 THEN mean(t.fr.y) ELSE R(0)],
              !.fr.penalized_deviance = INFINITY,
              !.fr.is_converged = FALSE,
              !.fr.n_iter = 0,
              !.pc = "nu"]

\* nu = matmul(x, &coef, n, p, false, false);
fit_nu(t) ==
    [t EXCEPT !.fr.nu = matmul(t.fr.x, t.fr.coef, t.fr.n, t.fr.p, FALSE, FALSE),
              !.pc = "offset"]

\* if let Some(offset) = &self.offsets { assert_eq!(..); nu = vadd(&nu, offset); }
fit_offset(t) ==
    IF is_some(t.self.offsets)
    THEN IF Len(unwrap(t.self.offsets)) # t.fr.n THEN Panic(t, "wrong number of offsets")
         ELSE [t EXCEPT !.fr.nu = vadd(t.fr.nu, unwrap(t.self.offsets)), !.pc = "mu"]
    ELSE [t EXCEPT !.pc = "mu"]

\* mu = inv_link(nu); dmu = d_inv_link(nu, mu); var = variance(mu);
fit_mu(t) ==
    LET mu == inv_link(t.self.family, t.fr.nu)
    IN  [t EXCEPT !.fr.mu = mu,
                  !.fr.dmu = d_inv_link(t.self.family, t.fr.nu, mu),
                  !.fr.var = variance(t.self.family, mu),
                  !.pc = "grad"]

\* dbeta = compute_dbeta(..); ddbeta = compute_ddbeta(..);
fit_grad(t) ==
    [t EXCEPT !.fr.dbeta = compute_dbeta(t.self, t.fr.x, t.fr.y, t.fr.mu, t.fr.dmu,
                                         t.fr.var, t.fr.weights),
              !.fr.ddbeta = compute_ddbeta(t.self, t.fr.x, t.fr.y, t.fr.dmu, t.fr.var,
                                           t.fr.weights),
              !.pc = "penalty"]

\* if self.alpha > 0. { apply_dbeta_penalty(..); apply_ddbeta_penalty(..); }
fit_penalty(t) ==
    IF FGt(t.self.alpha, R(0))
    THEN [t EXCEPT !.fr.dbeta = apply_dbeta_penalty(t.self, t.fr.dbeta, t.fr.coef),
                   !.fr.ddbeta = apply_ddbeta_penalty(t.self, t.fr.ddbeta, t.fr.p),
                   !.pc = "update"]
    ELSE [t EXCEPT !.pc = "update"]

\* coef = vsub(&coef, &solve(&ddbeta, &dbeta));
fit_update(t) ==
    [t EXCEPT !.fr.coef = vsub(t.fr.coef, solve(t.fr.ddbeta, t.fr.dbeta)),
              !.pc = "converge"]

\* the deviance, the convergence test, n_iter += 1 and the loop exit
fit_converge(t) ==
    LET previous == t.fr.penalized_deviance
        current  == penalized_deviance(t.self.family, t.fr.y, t.fr.mu, t.self.alpha, t.fr.coef)
        conv     == has_converged(t.self, current, previous, t.self.tolerance)
        n_iter   == t.fr.n_iter + 1
    IN  [t EXCEPT !.fr.penalized_deviance_previous = previous,
                  !.fr.penalized_deviance = current,
                  !.fr.is_converged = conv,
                  !.fr.n_iter = n_iter,
                  !.pc = IF n_iter >= t.fr.max_iter \/ conv THEN "store" ELSE "nu"]

\* fit storing the penalized Hessian of the last iteration
fit_store_penalized(t) ==
    [t EXCEPT !.self.coef = Some(t.fr.coef),
              !.self.deviance = Some(deviance(t.self.family, t.fr.y, t.fr.mu)),
              !.self.information_matrix = Some(t.fr.ddbeta),
              !.pc = "done"]

\* self.coef = ..; self.deviance = ..; self.information_matrix = ..; self
fit_store(t) ==
    [t EXCEPT !.self.coef = Some(t.fr.coef),
              !.self.deviance = Some(deviance(t.self.family, t.fr.y, t.fr.mu)),
              !.self.information_matrix =
                  Some(compute_ddbeta(t.self, t.fr.x, t.fr.y, t.fr.dmu, t.fr.var, t.fr.weights)),
              !.pc = "done"]

FitLabels ==
    {"fit_entry", "check_design", "weights", "init", "nu", "offset", "mu", "grad",
     "penalty", "update", "converge", "store"}

fit_step(t) ==
    CASE t.pc = "fit_entry"    -> fit_entry(t)
      [] t.pc = "check_design" -> fit_check_design(t)
      [] t.pc = "weights"      -> fit_weights(t)
      [] t.pc = "init"         -> fit_init(t)
      [] t.pc = "nu"           -> fit_nu(t)
      [] t.pc = "offset"       -> fit_offset(t)
      [] t.pc = "mu"           -> fit_mu(t)
      [] t.pc = "grad"         -> fit_grad(t)
      [] t.pc = "penalty"      -> fit_penalty(t)
      [] t.pc = "update"       -> fit_update(t)
      [] t.pc = "converge"     -> fit_converge(t)
      [] t.pc = "store"        -> fit_store(t)

\* GLM::fit as a function: the call run from entry until it returns or panics
RECURSIVE fit_run(_)
fit_run(t) == IF t.pc \in FitLabels THEN fit_run(fit_step(t)) ELSE t

fit(self, x, y, max_iter) ==
    fit_run([self |-> self, fr |-> Frame(self, x, y, max_iter), pc |-> "fit_entry"])

\* ------------------------------------------------------------------------
\* cholesky (Cholesky-Banachiewicz), one definition per step.  A call is
\*   [pc, a, n, l, i, j]: the position, the argument, and the locals
\* ------------------------------------------------------------------------

is_square_ok(a) == \E k \in 0..Len(a) : k * k = Len(a)

is_square(a) == CHOOSE k \in 0..Len(a) : k * k = Len(a)

is_symmetric(a) ==
    /\ is_square_ok(a)
    /\ LET n == is_square(a)
       IN  \A i, j \in 0..(n - 1) : FEq(a[i * n + j + 1], a[j * n + i + 1])

CholeskyCall(a) == [pc |-> "entry", a |-> a, n |-> 0, l |-> Unset, i |-> 0, j |-> 0]

NoCholesky == [pc |-> "off", a |-> Unset, n |-> 0, l |-> Unset, i |-> 0, j |-> 0]

\* assert!(is_symmetric(a)); let n = is_square(a).unwrap(); let mut l = vec![0.; n * n];
cholesky_entry(c) ==
    IF ~is_symmetric(c.a) THEN [c EXCEPT !.pc = "panicked"]
    ELSE LET n == is_square(c.a)
         IN  [c EXCEPT !.n = n, !.l = Fill(R(0), n * n), !.i = 0, !.j = 0,
                       !.pc = IF n = 0 THEN "done" ELSE "loop"]

\* the loop body with the radicand clamped at zero
cholesky_value_clamped(a, l, n, i, j) ==
    LET s == dot(SubSeq(l, j * n + 1, j * n + j), SubSeq(l, i * n + 1, i * n + j))
        d == FSub(a[i * n + i + 1], s)
    IN  IF i = j THEN (IF FLt(d, R(0)) THEN R(0) ELSE FSqrt(d))
        ELSE FDiv(FSub(a[i * n + j + 1], s), l[j * n + j + 1])

\* the loop body with the operands of the off-diagonal subtraction swapped
cholesky_value_swapped(a, l, n, i, j) ==
    LET s == dot(SubSeq(l, j * n + 1, j * n + j), SubSeq(l, i * n + 1, i * n + j))
    IN  IF i = j THEN FSqrt(FSub(a[i * n + i + 1], s))
        ELSE FDiv(FSub(s, a[i * n + j + 1]), l[j * n + j + 1])

\* the value the loop body stores in l[i * n + j]
cholesky_value(a, l, n, i, j) ==
    LET s == dot(SubSeq(l, j * n + 1, j * n + j), SubSeq(l, i * n + 1, i * n + j))
    IN  IF i = j THEN FSqrt(FSub(a[i * n + i + 1], s))
        ELSE FDiv(FSub(a[i * n + j + 1], s), l[j * n + j + 1])

\* one pass of the body of `for i in 0..n { for j in 0..(i + 1) { .. } }`
cholesky_step(c) ==
    LET l2   == [c.l EXCEPT ![c.i * c.n + c.j + 1] = cholesky_value(c.a, c.l, c.n, c.i, c.j)]
        last == c.j = c.i
    IN  [c EXCEPT !.l = l2,
                  !.i = IF last THEN c.i + 1 ELSE c.i,
                  !.j = IF last THEN 0 ELSE c.j + 1,
                  !.pc = IF last /\ c.i + 1 = c.n THEN "done" ELSE "loop"]

\* ------------------------------------------------------------------------
\* Dot for (Matrix, Matrix).  A Matrix is [data, nrows, ncols]; a call is
\*   [pc, a, b, op, out]: out is the returned Matrix once pc = "done"
\* ------------------------------------------------------------------------

Matrix_new(data, nrows, ncols) == [data |-> data, nrows |-> nrows, ncols |-> ncols]

DotCall(a, b) == [pc |-> "ready", a |-> a, b |-> b, op |-> "", out |-> None]

NoDot == [pc |-> "off", a |-> Matrix_new(Unset, 0, 0), b |-> Matrix_new(Unset, 0, 0),
          op |-> "", out |-> None]

DotPanic(d, op) == [d EXCEPT !.pc = "panicked", !.op = op]

DotReturn(d, op, m) == [d EXCEPT !.pc = "done", !.op = op, !.out = Some(m)]

mat_dot(d) ==
    IF d.a.ncols # d.b.nrows THEN DotPanic(d, "dot")
    ELSE DotReturn(d, "dot",
             Matrix_new(matmul(d.a.data, d.b.data, d.a.nrows, d.b.nrows, FALSE, FALSE),
                        d.a.nrows, d.b.ncols))

mat_t_dot(d) ==
    IF d.a.nrows # d.b.nrows THEN DotPanic(d, "t_dot")
    ELSE DotReturn(d, "t_dot",
             Matrix_new(matmul(d.a.data, d.b.data, d.a.nrows, d.b.nrows, TRUE, FALSE),
                        d.a.ncols, d.b.ncols))

\* dot_t building its result with the shape of dot
mat_dot_t_shape_of_dot(d) ==
    IF d.a.ncols # d.b.ncols THEN DotPanic(d, "dot_t")
    ELSE DotReturn(d, "dot_t",
             Matrix_new(matmul(d.a.data, d.b.data, d.a.nrows, d.b.nrows, FALSE, TRUE),
                        d.a.nrows, d.b.ncols))

mat_dot_t(d) ==
    IF d.a.ncols # d.b.ncols THEN DotPanic(d, "dot_t")
    ELSE DotReturn(d, "dot_t",
             Matrix_new(matmul(d.a.data, d.b.data, d.a.nrows, d.b.nrows, FALSE, TRUE),
                        d.a.nrows, d.b.nrows))

mat_t_dot_t(d) ==
    IF d.a.nrows # d.b.ncols THEN DotPanic(d, "t_dot_t")
    ELSE DotReturn(d, "t_dot_t",
             Matrix_new(matmul(d.a.data, d.b.data, d.a.nrows, d.b.nrows, TRUE, TRUE),
                        d.a.ncols, d.b.nrows))

NoBorrow == [x |-> Unset, y |-> Unset]

\* ------------------------------------------------------------------------
\* ChiSquared.  The value is [dof, sampler]; chi holds it together with
\*   pc: "none" (not constructed), "live" or "panicked",
\*   op: the last call, n: the calls made so far,
\*   drawn: the Gamma the last sample() drew from
\* ------------------------------------------------------------------------

Gamma_new(alpha, beta) == [alpha |-> alpha, beta |-> beta]

NoGamma == [alpha |-> NaN, beta |-> NaN]

NoChiSquared ==
    [pc |-> "none", dof |-> 0, sampler |-> NoGamma, op |-> "", n |-> 0, drawn |-> None]

\* `x as usize` for a NaN or finite x: NaN and negatives give 0, a fraction
\* is dropped (+infinity would give usize::MAX and is not an input here)
as_usize(x) ==
    IF is_nan(x) \/ FLt(x, R(0)) THEN 0 ELSE x[1] \div x[2]

\* pub fn new(dof: usize) -> Self
ChiSquared_new(c, dof) ==
    IF dof <= 0 THEN [c EXCEPT !.pc = "panicked", !.op = "new", !.n = @ + 1]
    ELSE [pc |-> "live", dof |-> dof, sampler |-> Gamma_new(FDiv(R(dof), R(2)), <<1, 2>>),
          op |-> "new", n |-> c.n + 1, drawn |-> None]

\* fn default() -> Self
ChiSquared_default(c) == [ChiSquared_new(c, 1) EXCEPT !.op = "default"]

\* pub fn set_dof(&mut self, dof: usize) -> &mut Self
ChiSquared_set_dof(c, dof) ==
    IF dof <= 0 THEN [c EXCEPT !.pc = "panicked", !.op = "set_dof", !.n = @ + 1]
    ELSE [c EXCEPT !.dof = dof, !.op = "set_dof", !.n = @ + 1]

\* fn update(&mut self, params: &[f64]): params[0] panics on an empty slice
ChiSquared_update(c, params) ==
    IF Len(params) = 0 THEN [c EXCEPT !.pc = "panicked", !.op = "update", !.n = @ + 1]
    ELSE [ChiSquared_set_dof(c, as_usize(params[1])) EXCEPT !.op = "update"]

\* fn sample(&self) -> f64: a draw of self.sampler
ChiSquared_sample(c) ==
    [c EXCEPT !.drawn = Some(c.sampler), !.op = "sample", !.n = @ + 1]

\* ------------------------------------------------------------------------
\* State
\* ------------------------------------------------------------------------

VARIABLES
    glm,    \* glm[g]: the GLM struct of instance g
    pc,     \* pc[g]: "idle", a label of FitLabels, "done" (fit returned) or "panicked"
    fr,     \* fr[g]: the locals of the current (or last) fit call on g
    calls,  \* calls[g]: fit calls made on g so far
    sets,   \* sets[g]: setter calls made on g so far
    ch,     \* the cholesky call
    mm,     \* the Dot call
    borrowed,  \* the x and y a caller owns and lends to its fit calls
    chi     \* the ChiSquared value and the last call made on it

vars == <<glm, pc, fr, calls, sets, ch, mm, borrowed, chi>>

\* ------------------------------------------------------------------------
\* Bounds and input sets
\* ------------------------------------------------------------------------

\* the largest max_iter passed to fit
MaxIter == 3

\* the number of calls (setters and fit) made on one GLM
MaxOps == 3

\* design matrices for 3 observations: 3x1, 3x2, a 3x2 matrix whose first
\* column is not all 1, and a vector that does not split into 3 rows
XInputs ==
    {RV(<<1, 1, 1>>), RV(<<1, -1, 1, 0, 1, 1>>), RV(<<1, -1, 0, 0, 1, 1>>), RV(<<1, 0, 1, 1>>)}

YInputs == {RV(<<0, 1, 1>>), RV(<<1, 2, 4>>)}

AlphaInputs == {R(2)}

ToleranceInputs == {R(1)}

WeightInputs == {RV(<<1, 1, 1>>), RV(<<1, 4, 1>>), RV(<<1, 1>>)}

OffsetInputs == {RV(<<0, 0, 0>>), RV(<<1, -2, 1>>), RV(<<0, 0>>)}

\* ------------------------------------------------------------------------
\* Actions of the GLM
\* ------------------------------------------------------------------------

Callable(g) == pc[g] \in {"idle", "done"} /\ calls[g] + sets[g] < MaxOps

Setter(g, new) ==
    /\ Callable(g)
    /\ glm' = [glm EXCEPT ![g] = new]
    /\ pc' = [pc EXCEPT ![g] = "idle"]
    /\ fr' = [fr EXCEPT ![g] = NoFrame]
    /\ sets' = [sets EXCEPT ![g] = @ + 1]
    /\ UNCHANGED <<calls, ch, mm, borrowed, chi>>

set_penalty(g, alpha) == Setter(g, [glm[g] EXCEPT !.alpha = alpha])

set_tolerance(g, tolerance) == Setter(g, [glm[g] EXCEPT !.tolerance = tolerance])

set_weights(g, weights) == Setter(g, [glm[g] EXCEPT !.weights = Some(weights)])

set_offset(g, offset) == Setter(g, [glm[g] EXCEPT !.offsets = Some(offset)])

\* a call of fit(x, y, max_iter) binds its arguments
FitCall(g, x, y, max_iter) ==
    /\ Callable(g)
    /\ pc' = [pc EXCEPT ![g] = "fit_entry"]
    /\ fr' = [fr EXCEPT ![g] = Frame(glm[g], x, y, max_iter)]
    /\ calls' = [calls EXCEPT ![g] = @ + 1]
    /\ UNCHANGED <<glm, sets, ch, mm, borrowed, chi>>

Call(g) == [self |-> glm[g], fr |-> fr[g], pc |-> pc[g]]

\* fit on one model shared by every caller: a step writes self to all of them
Becomes_shared_self(g, t) ==
    /\ glm' = [h \in DOMAIN glm |-> t.self]
    /\ fr' = [fr EXCEPT ![g] = t.fr]
    /\ pc' = [pc EXCEPT ![g] = t.pc]
    /\ UNCHANGED <<calls, sets, ch, mm, borrowed, chi>>

Becomes(g, t) ==
    /\ glm' = [glm EXCEPT ![g] = t.self]
    /\ fr' = [fr EXCEPT ![g] = t.fr]
    /\ pc' = [pc EXCEPT ![g] = t.pc]
    /\ UNCHANGED <<calls, sets, ch, mm, borrowed, chi>>

FitEntry(g) == pc[g] = "fit_entry" /\ Becomes(g, fit_entry(Call(g)))

FitCheckDesign(g) == pc[g] = "check_design" /\ Becomes(g, fit_check_design(Call(g)))

FitWeights(g) == pc[g] = "weights" /\ Becomes(g, fit_weights(Call(g)))

FitInit(g) == pc[g] = "init" /\ Becomes(g, fit_init(Call(g)))

FitNu(g) == pc[g] = "nu" /\ Becomes(g, fit_nu(Call(g)))

FitOffset(g) == pc[g] = "offset" /\ Becomes(g, fit_offset(Call(g)))

FitMu(g) == pc[g] = "mu" /\ Becomes(g, fit_mu(Call(g)))

FitGrad(g) == pc[g] = "grad" /\ Becomes(g, fit_grad(Call(g)))

FitPenalty(g) == pc[g] = "penalty" /\ Becomes(g, fit_penalty(Call(g)))

FitUpdate(g) == pc[g] = "update" /\ Becomes(g, fit_update(Call(g)))

FitConverge(g) == pc[g] = "converge" /\ Becomes(g, fit_converge(Call(g)))

FitStore(g) == pc[g] = "store" /\ Becomes(g, fit_store(Call(g)))

\* ------------------------------------------------------------------------
\* Spec: one GLM, as GLM::new(ExponentialFamily::Gaussian) leaves it
\* ------------------------------------------------------------------------

GLMs == {1}

Init ==
    /\ glm = [g \in GLMs |-> GLM_new("Gaussian")]
    /\ pc = [g \in GLMs |-> "idle"]
    /\ fr = [g \in GLMs |-> NoFrame]
    /\ calls = [g \in GLMs |-> 0]
    /\ sets = [g \in GLMs |-> 0]
    /\ ch = NoCholesky
    /\ mm = NoDot
    /\ borrowed = NoBorrow
    /\ chi = NoChiSquared

Next ==
    \/ \E g \in GLMs, alpha \in AlphaInputs : set_penalty(g, alpha)
    \/ \E g \in GLMs, tolerance \in ToleranceInputs : set_tolerance(g, tolerance)
    \/ \E g \in GLMs, weights \in WeightInputs : set_weights(g, weights)
    \/ \E g \in GLMs, offset \in OffsetInputs : set_offset(g, offset)
    \/ \E g \in GLMs, x \in XInputs, y \in YInputs, max_iter \in 0..MaxIter :
           FitCall(g, x, y, max_iter)
    \/ \E g \in GLMs : FitEntry(g)
    \/ \E g \in GLMs : FitCheckDesign(g)
    \/ \E g \in GLMs : FitWeights(g)
    \/ \E g \in GLMs : FitInit(g)
    \/ \E g \in GLMs : FitNu(g)
    \/ \E g \in GLMs : FitOffset(g)
    \/ \E g \in GLMs : FitMu(g)
    \/ \E g \in GLMs : FitGrad(g)
    \/ \E g \in GLMs : FitPenalty(g)
    \/ \E g \in GLMs : FitUpdate(g)
    \/ \E g \in GLMs : FitConverge(g)
    \/ \E g \in GLMs : FitStore(g)

Spec == Init /\ [][Next]_vars

\* ------------------------------------------------------------------------
\* SpecChol: one call of cholesky on a matrix of CholInputs
\* ------------------------------------------------------------------------

\* the largest side of a matrix passed to cholesky
MaxDim == 3

Diagonal == {1, 2}

OffDiagonal == {-1, 2}

\* the n x n lower-triangular matrix with diagonal d and strict lower part o
Lower(n, d, o) ==
    [idx \in 1..(n * n) |->
        LET i == (idx - 1) \div n
            j == (idx - 1) % n
        IN  IF i = j THEN R(d[i + 1])
            ELSE IF j < i THEN R(o[(i * (i - 1)) \div 2 + j + 1])
            ELSE R(0)]

LowerFactors(n) ==
    {Lower(n, d, o) : d \in [1..n -> Diagonal], o \in [1..((n * (n - 1)) \div 2) -> OffDiagonal]}

\* f * f^T, with the diagonal entry of row r (when r >= 1) lowered until the
\* pivot's radicand is -1
Gram(f, n, r) ==
    [idx \in 1..(n * n) |->
        LET i == (idx - 1) \div n
            j == (idx - 1) % n
            g == dot(SubSeq(f, i * n + 1, i * n + n), SubSeq(f, j * n + 1, j * n + n))
        IN  IF i = j /\ i + 1 = r
            THEN FSub(g, FAdd(FMul(f[idx], f[idx]), R(1)))
            ELSE g]

\* the symmetric matrices up to m x m with exact pivots, positive-definite
\* (r = 0) or with a negative radicand in row r, and two matrices that are
\* not symmetric or not square
CholInputs(m) ==
    UNION {{Gram(f, n, r) : f \in LowerFactors(n), r \in 0..n} : n \in 1..m}
    \cup {RV(<<1, 2, 3, 4>>), RV(<<1, 2, 3>>)}

CholeskyEntry ==
    /\ ch.pc = "entry"
    /\ ch' = cholesky_entry(ch)
    /\ UNCHANGED <<glm, pc, fr, calls, sets, mm, borrowed, chi>>

CholeskyStep ==
    /\ ch.pc = "loop"
    /\ ch' = cholesky_step(ch)
    /\ UNCHANGED <<glm, pc, fr, calls, sets, mm, borrowed, chi>>

InitChol ==
    /\ glm = <<>>
    /\ pc = <<>>
    /\ fr = <<>>
    /\ calls = <<>>
    /\ sets = <<>>
    /\ \E a \in CholInputs(MaxDim) : ch = CholeskyCall(a)
    /\ mm = NoDot
    /\ borrowed = NoBorrow
    /\ chi = NoChiSquared

NextChol == CholeskyEntry \/ CholeskyStep

SpecChol == InitChol /\ [][NextChol]_vars

\* ------------------------------------------------------------------------
\* SpecDot: one call of a Dot method on two matrices of MatInputs
\* ------------------------------------------------------------------------

\* the largest number of rows or columns of an operand
MaxSide == 2

\* an r x c matrix with entries k, k + 1, ..
Counting(r, c, k) == Matrix_new([idx \in 1..(r * c) |-> R(k + idx - 1)], r, c)

MatInputs(m) == {Counting(r, c, k) : r \in 1..m, c \in 1..m, k \in {-1, 1}}

Dot == mm.pc = "ready" /\ mm' = mat_dot(mm) /\ UNCHANGED <<glm, pc, fr, calls, sets, ch, borrowed, chi>>

TDot == mm.pc = "ready" /\ mm' = mat_t_dot(mm) /\ UNCHANGED <<glm, pc, fr, calls, sets, ch, borrowed, chi>>

DotT == mm.pc = "ready" /\ mm' = mat_dot_t(mm) /\ UNCHANGED <<glm, pc, fr, calls, sets, ch, borrowed, chi>>

TDotT == mm.pc = "ready" /\ mm' = mat_t_dot_t(mm) /\ UNCHANGED <<glm, pc, fr, calls, sets, ch, borrowed, chi>>

InitDot ==
    /\ glm = <<>>
    /\ pc = <<>>
    /\ fr = <<>>
    /\ calls = <<>>
    /\ sets = <<>>
    /\ ch = NoCholesky
    /\ \E a \in MatInputs(MaxSide), b \in MatInputs(MaxSide) : mm = DotCall(a, b)
    /\ borrowed = NoBorrow
    /\ chi = NoChiSquared

NextDot == Dot \/ TDot \/ DotT \/ TDotT

SpecDot == InitDot /\ [][NextDot]_vars

\* ------------------------------------------------------------------------
\* SpecPar: two GLMs, each configured and fitted by a thread of its own over
\* the same borrowed x and y; the steps of the two fits interleave freely
\* ------------------------------------------------------------------------

Fitters == {1, 2}

ParYInputs == {RV(<<0, 1, 1>>)}

ParWeightInputs == {RV(<<1, 4, 1>>)}

\* a thread configures its GLM at most once, before its fit
ParSetPenalty(g, alpha) == calls[g] = 0 /\ sets[g] = 0 /\ set_penalty(g, alpha)

ParSetWeights(g, weights) == calls[g] = 0 /\ sets[g] = 0 /\ set_weights(g, weights)

\* glm.fit(&x, &y, max_iter) on the shared x and y
ParFit(g, max_iter) == calls[g] = 0 /\ FitCall(g, borrowed.x, borrowed.y, max_iter)

InitPar ==
    /\ glm = [g \in Fitters |-> GLM_new("Gaussian")]
    /\ pc = [g \in Fitters |-> "idle"]
    /\ fr = [g \in Fitters |-> NoFrame]
    /\ calls = [g \in Fitters |-> 0]
    /\ sets = [g \in Fitters |-> 0]
    /\ ch = NoCholesky
    /\ mm = NoDot
    /\ \E x \in XInputs, y \in ParYInputs : borrowed = [x |-> x, y |-> y]
    /\ chi = NoChiSquared

NextPar ==
    \/ \E g \in Fitters, alpha \in AlphaInputs : ParSetPenalty(g, alpha)
    \/ \E g \in Fitters, weights \in ParWeightInputs : ParSetWeights(g, weights)
    \/ \E g \in Fitters, max_iter \in 1..MaxIter : ParFit(g, max_iter)
    \/ \E g \in Fitters : FitEntry(g)
    \/ \E g \in Fitters : FitCheckDesign(g)
    \/ \E g \in Fitters : FitWeights(g)
    \/ \E g \in Fitters : FitInit(g)
    \/ \E g \in Fitters : FitNu(g)
    \/ \E g \in Fitters : FitOffset(g)
    \/ \E g \in Fitters : FitMu(g)
    \/ \E g \in Fitters : FitGrad(g)
    \/ \E g \in Fitters : FitPenalty(g)
    \/ \E g \in Fitters : FitUpdate(g)
    \/ \E g \in Fitters : FitConverge(g)
    \/ \E g \in Fitters : FitStore(g)

SpecPar == InitPar /\ [][NextPar]_vars

\* ------------------------------------------------------------------------
\* SpecChi: a sequence of calls on one ChiSquared variable
\* ------------------------------------------------------------------------

\* the largest dof passed to new, set_dof or update
MaxDof == 3

\* the number of calls made on the variable
MaxChiOps == 4

\* the slices passed to update: empty, NaN, a negative number, a fraction,
\* and the whole numbers up to MaxDof
UpdateInputs ==
    {<<>>, <<NaN>>, <<R(-1)>>, <<<<3, 2>>>>} \cup {<<R(k)>> : k \in 0..MaxDof}

ChiCallable == chi.pc # "panicked" /\ chi.n < MaxChiOps

ChiNew(dof) == ChiCallable /\ chi' = ChiSquared_new(chi, dof) /\ UNCHANGED <<glm, pc, fr, calls, sets, ch, mm, borrowed>>

ChiDefault == ChiCallable /\ chi' = ChiSquared_default(chi) /\ UNCHANGED <<glm, pc, fr, calls, sets, ch, mm, borrowed>>

ChiSetDof(dof) ==
    /\ ChiCallable /\ chi.pc = "live"
    /\ chi' = ChiSquared_set_dof(chi, dof)
    /\ UNCHANGED <<glm, pc, fr, calls, sets, ch, mm, borrowed>>

ChiUpdate(params) ==
    /\ ChiCallable /\ chi.pc = "live"
    /\ chi' = ChiSquared_update(chi, params)
    /\ UNCHANGED <<glm, pc, fr, calls, sets, ch, mm, borrowed>>

ChiSample ==
    /\ ChiCallable /\ chi.pc = "live"
    /\ chi' = ChiSquared_sample(chi)
    /\ UNCHANGED <<glm, pc, fr, calls, sets, ch, mm, borrowed>>

InitChi ==
    /\ glm = <<>>
    /\ pc = <<>>
    /\ fr = <<>>
    /\ calls = <<>>
    /\ sets = <<>>
    /\ ch = NoCholesky
    /\ mm = NoDot
    /\ borrowed = NoBorrow
    /\ chi = NoChiSquared

NextChi ==
    \/ \E dof \in 0..MaxDof : ChiNew(dof)
    \/ ChiDefault
    \/ \E dof \in 0..MaxDof : ChiSetDof(dof)
    \/ \E params \in UpdateInputs : ChiUpdate(params)
    \/ ChiSample

SpecChi == InitChi /\ [][NextChi]_vars

\* ------------------------------------------------------------------------
\* Properties of GLM::fit (checked under Spec)
\* ------------------------------------------------------------------------

\* entry (i, j), counted from 0, of the n x n matrix m
At(m, n, i, j) == m[i * n + j + 1]

Results(self) ==
    [coef |-> self.coef, deviance |-> self.deviance,
     information_matrix |-> self.information_matrix]

\* the model with its fitted outputs cleared, hyperparameters kept
Unfitted(self) ==
    [self EXCEPT !.coef = None, !.deviance = None, !.information_matrix = None]

InCall(g) == pc[g] \in FitLabels \cup {"done", "panicked"}

\* C1: a fit call that returns has performed at most max_iter iterations,
\* for every max_iter, 0 and 1 included.
C1_AtMostMaxIter ==
    \A g \in DOMAIN glm : pc[g] = "done" => fr[g].n_iter <= fr[g].max_iter

\* C2: the first iteration never signals convergence (the previous deviance
\* it compares with is +infinity), so a fit call with max_iter >= 2 never
\* leaves the loop after one iteration: when it returns it has run at least two.
C2_FirstPassNeverConverges ==
    \A g \in DOMAIN glm :
        /\ (InCall(g) /\ fr[g].n_iter = 1) =>
               /\ fr[g].penalized_deviance_previous = INFINITY
               /\ ~fr[g].is_converged
        /\ (InCall(g) /\ fr[g].n_iter = 1 /\ fr[g].max_iter >= 2) => pc[g] \notin {"store", "done"}
        /\ (pc[g] = "done" /\ fr[g].max_iter >= 2) => fr[g].n_iter >= 2

\* a fit with the loose tolerance 1 and max_iter = 3 that converged in its
\* second iteration, not in its first
C2_Witness ==
    \E g \in DOMAIN glm :
        /\ pc[g] = "done"
        /\ glm[g].tolerance = R(1)
        /\ fr[g].max_iter = 3
        /\ fr[g].n_iter = 2
        /\ fr[g].is_converged

\* the iteration locals a fit call has not touched yet
NoIterationRan(g) ==
    /\ fr[g].coef = Unset
    /\ fr[g].nu = Unset
    /\ fr[g].mu = Unset
    /\ fr[g].dmu = Unset
    /\ fr[g].var = Unset
    /\ fr[g].dbeta = Unset
    /\ fr[g].ddbeta = Unset
    /\ fr[g].penalized_deviance = Unset
    /\ fr[g].n_iter = 0

NotDesign(g) ==
    /\ is_matrix_ok(fr[g].x, Len(fr[g].y))
    /\ ~is_design(fr[g].x, Len(fr[g].y))

\* C3: when the first column of x is not identically 1 the call stops at
\* entry with "x is not a design matrix": no iteration step has run and the
\* model's fitted outputs are what they were before the call.
C3_InvalidDesignAtEntry ==
    \A g \in DOMAIN glm :
        (InCall(g) /\ NotDesign(g)) =>
            /\ pc[g] \in {"fit_entry", "check_design", "panicked"}
            /\ pc[g] = "panicked" => fr[g].err = "x is not a design matrix"
            /\ NoIterationRan(g)
            /\ Results(glm[g]) = fr[g].old

C3_Witness ==
    \E g \in DOMAIN glm :
        /\ pc[g] = "panicked"
        /\ NotDesign(g)
        /\ fr[g].err = "x is not a design matrix"

\* C4: a weights or offsets vector of the wrong length is detected before
\* the first linear predictor nu is computed.
C4_LengthChecksBeforeNu ==
    \A g \in DOMAIN glm :
        (pc[g] = "panicked" /\ fr[g].err \in {"wrong number of weights", "wrong number of offsets"})
            => fr[g].nu = Unset

\* X^T * diag(w) * X, entry by entry, for the n x p matrix x
CrossProduct(x, w, n, p) ==
    [idx \in 1..(p * p) |->
        LET a == (idx - 1) \div p
            b == (idx - 1) % p
        IN  sum([i \in 1..n |-> FMul(FMul(x[(i - 1) * p + a + 1], w[i]), x[(i - 1) * p + b + 1])])]

\* weights * dmu^2 / var of the call's last iteration
WorkingWeights(g) ==
    [i \in 1..fr[g].n |->
        FDiv(FMul(fr[g].weights[i], FMul(fr[g].dmu[i], fr[g].dmu[i])), fr[g].var[i])]

\* C5: after a fit with alpha > 0 the stored deviance is the family's
\* unpenalized deviance(y, mu) and the stored information matrix is
\* X^T*diag(w)*X of the last iteration, with no alpha on its diagonal.
C5_StoredArtifactsUnpenalized ==
    \A g \in DOMAIN glm :
        (pc[g] = "done" /\ FGt(glm[g].alpha, R(0))) =>
            /\ glm[g].coef = Some(fr[g].coef)
            /\ glm[g].deviance = Some(deviance(glm[g].family, fr[g].y, fr[g].mu))
            /\ glm[g].information_matrix =
                   Some(CrossProduct(fr[g].x, WorkingWeights(g), fr[g].n, fr[g].p))

\* a fit with alpha > 0 whose penalized deviance and penalized Hessian differ
\* from what is stored
C5_Witness ==
    \E g \in DOMAIN glm :
        /\ pc[g] = "done"
        /\ FGt(glm[g].alpha, R(0))
        /\ fr[g].p = 2
        /\ glm[g].deviance # Some(fr[g].penalized_deviance)
        /\ glm[g].information_matrix # Some(fr[g].ddbeta)

\* C6: the results of a fit are those of the same fit on a model that was
\* never fitted: they do not depend on the coef, deviance or
\* information_matrix held before the call (a failing call fails either way).
C6_FitFromScratch ==
    \A g \in DOMAIN glm :
        pc[g] \in {"done", "panicked"} =>
            LET fresh == fit(Unfitted(glm[g]), fr[g].x, fr[g].y, fr[g].max_iter)
            IN  /\ fresh.pc = pc[g]
                /\ pc[g] = "done" => Results(glm[g]) = Results(fresh.self)

\* a second fit that replaced the different results of a first one
C6_Witness ==
    \E g \in DOMAIN glm :
        /\ pc[g] = "done"
        /\ calls[g] = 2
        /\ is_some(fr[g].old.coef)
        /\ fr[g].old.coef # glm[g].coef
        /\ fr[g].old.deviance # glm[g].deviance

\* C7: GLM::new gives alpha = 0, tolerance = 1e-5 and no weights, offsets
\* or fitted outputs; a fit with weights unset gives the results of the fit
\* with weights set to n ones, and a fit with offsets unset those of the fit
\* with offsets set to n zeros.
C7_DefaultSubstitution ==
    \A g \in DOMAIN glm :
        /\ (calls[g] = 0 /\ sets[g] = 0) =>
               /\ glm[g].alpha = R(0)
               /\ glm[g].tolerance = <<1, 100000>>
               /\ glm[g].weights = None /\ glm[g].offsets = None
               /\ Results(glm[g]) = [coef |-> None, deviance |-> None, information_matrix |-> None]
        /\ (pc[g] = "done" /\ glm[g].weights = None) =>
               Results(glm[g]) =
                   Results(fit([Unfitted(glm[g]) EXCEPT !.weights = Some(Fill(R(1), Len(fr[g].y)))],
                               fr[g].x, fr[g].y, fr[g].max_iter).self)
        /\ (pc[g] = "done" /\ glm[g].offsets = None) =>
               Results(glm[g]) =
                   Results(fit([Unfitted(glm[g]) EXCEPT !.offsets = Some(Fill(R(0), Len(fr[g].y)))],
                               fr[g].x, fr[g].y, fr[g].max_iter).self)

\* a returned fit on a model with neither weights nor offsets set
C7_Witness ==
    \E g \in DOMAIN glm :
        /\ pc[g] = "done"
        /\ glm[g].weights = None
        /\ glm[g].offsets = None
        /\ fr[g].p = 2
        /\ fr[g].n_iter >= 2

\* the gradient of the loss in the data alone:
\* dbeta[j] = - sum_i x[i, j] * weights[i] * (y[i] - mu[i]) * dmu[i] / var[i]
DataGradient(g) ==
    [j \in 1..fr[g].p |->
        FNeg(sum([i \in 1..fr[g].n |->
                     FMul(fr[g].x[(i - 1) * fr[g].p + j],
                          FMul(FMul(fr[g].weights[i], FSub(fr[g].y[i], fr[g].mu[i])),
                               FDiv(fr[g].dmu[i], fr[g].var[i])))]))]

\* the Hessian of the loss in the data alone: X^T * diag(working weights) * X
DataHessian(g) == CrossProduct(fr[g].x, WorkingWeights(g), fr[g].n, fr[g].p)

\* C13: when the solve step is reached with alpha > 0, dbeta is the data
\* gradient with coef[i] added at every index i >= 1 and dbeta[0] untouched;
\* with alpha = 0 dbeta and ddbeta are exactly the data gradient and Hessian.
C13_GradientPenalty ==
    \A g \in DOMAIN glm :
        pc[g] = "update" =>
            IF FGt(glm[g].alpha, R(0))
            THEN /\ fr[g].dbeta[1] = DataGradient(g)[1]
                 /\ \A i \in 2..fr[g].p :
                        fr[g].dbeta[i] = FAdd(DataGradient(g)[i], fr[g].coef[i])
            ELSE /\ fr[g].dbeta = DataGradient(g)
                 /\ fr[g].ddbeta = DataHessian(g)

\* a penalized iteration about to solve, with a non-zero slope coefficient
\* added to the gradient
C13_Witness ==
    \E g \in DOMAIN glm :
        /\ pc[g] = "update"
        /\ FGt(glm[g].alpha, R(0))
        /\ fr[g].p = 2
        /\ fr[g].coef[2] # R(0)
        /\ fr[g].dbeta[2] # DataGradient(g)[2]

\* C14: when the solve step is reached with alpha > 0, ddbeta is the data
\* Hessian with alpha added to ddbeta[i,i] for i >= 1 only: ddbeta[0,0] and
\* the off-diagonal entries are the data Hessian's.
C14_HessianPenaltySkipsIntercept ==
    \A g \in DOMAIN glm :
        (pc[g] = "update" /\ FGt(glm[g].alpha, R(0))) =>
            \A i, j \in 0..(fr[g].p - 1) :
                At(fr[g].ddbeta, fr[g].p, i, j) =
                    IF i = j /\ i >= 1
                    THEN FAdd(At(DataHessian(g), fr[g].p, i, j), glm[g].alpha)
                    ELSE At(DataHessian(g), fr[g].p, i, j)

\* mu = inv_link(X * coef + offsets) for the coefficients the call holds now
MuOfCoef(g) ==
    LET xb == matmul(fr[g].x, fr[g].coef, fr[g].n, fr[g].p, FALSE, FALSE)
    IN  inv_link(glm[g].family,
                 IF is_some(glm[g].offsets) THEN vadd(xb, unwrap(glm[g].offsets)) ELSE xb)

\* C15: once an iteration has finished, its penalized deviance is the one of
\* the updated coefficients and of the mean vector that belongs to them.
C15_DevianceOfNewState ==
    \A g \in DOMAIN glm :
        (pc[g] \in {"nu", "store", "done"} /\ fr[g].n_iter >= 1) =>
            fr[g].penalized_deviance =
                penalized_deviance(glm[g].family, fr[g].y, MuOfCoef(g), glm[g].alpha, fr[g].coef)

\* |d - previous| / previous
RelativeChange(d, previous) == FDiv(FAbs(FSub(d, previous)), previous)

\* C16: with max_iter >= 1, the step that ends iteration k leaves the loop
\* exactly when k >= max_iter or (k >= 2 and |D_k - D_(k-1)| / D_(k-1) <
\* tolerance) and otherwise starts iteration k + 1; a call whose last
\* iteration signalled convergence is at its store step or has returned, and
\* every returned call has stored coef, deviance and information_matrix.
C16_LoopExit ==
    /\ [](\A g \in DOMAIN glm :
              /\ (InCall(g) /\ fr[g].is_converged) => pc[g] \in {"store", "done"}
              /\ pc[g] = "done" =>
                     /\ glm[g].coef = Some(fr[g].coef)
                     /\ is_some(glm[g].deviance)
                     /\ is_some(glm[g].information_matrix))
    /\ [][\A g \in DOMAIN glm :
              (pc[g] = "converge" /\ fr[g].max_iter >= 1) =>
                  LET k    == fr[g].n_iter + 1
                      last == \/ k >= fr[g].max_iter
                              \/ /\ k >= 2
                                 /\ FLt(RelativeChange(fr'[g].penalized_deviance,
                                                       fr[g].penalized_deviance),
                                        glm[g].tolerance)
                  IN  /\ fr'[g].n_iter = k
                      /\ pc'[g] = IF last THEN "store" ELSE "nu"]_vars

\* a call that left the loop at max_iter >= 2 without convergence and stored
\* its result
C16_Witness ==
    \E g \in DOMAIN glm :
        /\ pc[g] = "done"
        /\ fr[g].max_iter >= 2
        /\ fr[g].n_iter = fr[g].max_iter
        /\ ~fr[g].is_converged
        /\ is_finite(fr[g].penalized_deviance_previous)
        /\ glm[g].coef = Some(fr[g].coef)

\* C17: until a fit call returns, coef, deviance and information_matrix are
\* what they were when it was made: a call that panics on x, on the weights
\* or on the offsets leaves them, an earlier fit's results included, and no
\* step before the end of the loop writes them.
C17_FailedFitKeepsResults ==
    \A g \in DOMAIN glm :
        (pc[g] \in FitLabels \cup {"panicked"}) => Results(glm[g]) = fr[g].old

\* a call that panicked inside its first iteration on a model that holds
\* the results of an earlier fit
C17_Witness ==
    \E g \in DOMAIN glm :
        /\ pc[g] = "panicked"
        /\ fr[g].err = "wrong number of offsets"
        /\ is_some(fr[g].old.coef)
        /\ glm[g].coef = fr[g].old.coef

\* ------------------------------------------------------------------------
\* Properties of concurrent fits (checked under SpecPar)
\* ------------------------------------------------------------------------

\* everything a fit on g reads or writes apart from the borrowed x and y
Owned(g) == <<glm[g], pc[g], fr[g], calls[g], sets[g]>>

\* C11: two fits on separate GLMs over the same borrowed x and y, their steps
\* interleaved in any order, each return the coef, deviance and
\* information_matrix of that fit run alone from entry to return; no step
\* changes x or y, and a step of one fit changes nothing the other owns.
C11_ParallelFitsIndependent ==
    /\ [](\A g \in DOMAIN glm :
              pc[g] = "done" =>
                  /\ fr[g].x = borrowed.x /\ fr[g].y = borrowed.y
                  /\ Results(glm[g]) =
                         Results(fit(Unfitted(glm[g]), borrowed.x, borrowed.y,
                                     fr[g].max_iter).self))
    /\ [][/\ borrowed' = borrowed
          /\ \A g, h \in DOMAIN glm :
                 (g # h /\ Owned(g)' # Owned(g)) => Owned(h)' = Owned(h)]_vars

\* both fits have returned, each after at least two iterations, with
\* different results
C11_Witness ==
    /\ DOMAIN glm = Fitters
    /\ pc[1] = "done" /\ pc[2] = "done"
    /\ fr[1].p = 2
    /\ glm[1].coef # glm[2].coef
    /\ fr[1].n_iter >= 2 /\ fr[2].n_iter >= 2

\* ------------------------------------------------------------------------
\* Properties of ChiSquared (checked under SpecChi)
\* ------------------------------------------------------------------------

\* the Gamma whose draws are chi-squared with k degrees of freedom
GammaOfDof(k) == [alpha |-> FDiv(R(k), R(2)), beta |-> <<1, 2>>]

\* C18: after calls of new, set_dof and update that did not panic, dof >= 1
\* and the sampler is the Gamma of shape dof / 2 and rate 1/2, so that
\* sample() draws from the chi-squared distribution of the current dof.
C18_SamplerFollowsDof ==
    chi.pc = "live" =>
        /\ chi.dof >= 1
        /\ chi.sampler = GammaOfDof(chi.dof)
        /\ chi.op = "sample" => chi.drawn = Some(GammaOfDof(chi.dof))

\* ------------------------------------------------------------------------
\* Properties of cholesky (checked under SpecChol)
\* ------------------------------------------------------------------------

\* the leading k x k block of the n x n matrix m
Leading(m, n, k) == [idx \in 1..(k * k) |-> At(m, n, (idx - 1) \div k, (idx - 1) % k)]

\* the n x n matrix m without row 0 and column c
Minor(m, n, c) ==
    [idx \in 1..((n - 1) * (n - 1)) |->
        LET i == (idx - 1) \div (n - 1)
            j == (idx - 1) % (n - 1)
        IN  At(m, n, i + 1, IF j < c THEN j ELSE j + 1)]

\* the determinant, by expansion along row 0
RECURSIVE Det(_, _)
Det(m, n) ==
    IF n = 0 THEN R(1)
    ELSE IF n = 1 THEN m[1]
    ELSE sum([c \in 1..n |->
                FMul(IF c % 2 = 1 THEN R(1) ELSE R(-1),
                     FMul(At(m, n, 0, c - 1), Det(Minor(m, n, c - 1), n - 1)))])

\* symmetric positive-definite: symmetric with positive leading minors
IsSPD(a) ==
    /\ is_symmetric(a)
    /\ \A k \in 1..is_square(a) : FGt(Det(Leading(a, is_square(a), k), k), R(0))

Row(m, n, i) == SubSeq(m, i * n + 1, i * n + n)

\* C8: for a symmetric positive-definite A, cholesky(A) is an n x n matrix L
\* with zeros above the diagonal and L * L^T = A entry by entry.
C8_CholeskyFactor ==
    (ch.pc = "done" /\ IsSPD(ch.a)) =>
        /\ Len(ch.l) = ch.n * ch.n
        /\ \A i, j \in 0..(ch.n - 1) :
               /\ i < j => At(ch.l, ch.n, i, j) = R(0)
               /\ FEq(dot(Row(ch.l, ch.n, i), Row(ch.l, ch.n, j)), At(ch.a, ch.n, i, j))

\* a returned factor of a 3 x 3 positive-definite matrix that is not diagonal
C8_Witness ==
    /\ ch.pc = "done"
    /\ IsSPD(ch.a)
    /\ ch.n = 3
    /\ At(ch.l, ch.n, 1, 0) # R(0)
    /\ At(ch.l, ch.n, 2, 1) # R(0)

\* A[i,i] - s as the loop body of row i computed it
Radicand(i) ==
    FSub(At(ch.a, ch.n, i, i),
         dot(SubSeq(ch.l, i * ch.n + 1, i * ch.n + i), SubSeq(ch.l, i * ch.n + 1, i * ch.n + i)))

\* C9: on a symmetric matrix cholesky never panics; where A[i,i] - s is
\* negative it stores NaN in L[i,i], every entry computed from that pivot
\* (rows k > i, columns i..k) is NaN, and the result has all n * n entries.
C9_NaNPropagates ==
    /\ (ch.pc # "off" /\ is_symmetric(ch.a)) => ch.pc # "panicked"
    /\ ch.pc = "done" =>
           /\ Len(ch.l) = ch.n * ch.n
           /\ \A i \in 0..(ch.n - 1) :
                  FLt(Radicand(i), R(0)) =>
                      /\ is_nan(At(ch.l, ch.n, i, i))
                      /\ \A k \in (i + 1)..(ch.n - 1), j \in i..(ch.n - 1) :
                             j <= k => is_nan(At(ch.l, ch.n, k, j))

\* a returned 3 x 3 result whose second pivot had a negative radicand
C9_Witness ==
    /\ ch.pc = "done"
    /\ ch.n = 3
    /\ is_finite(At(ch.l, ch.n, 0, 0))
    /\ FLt(Radicand(1), R(0))
    /\ is_nan(At(ch.l, ch.n, 2, 2))
    /\ is_finite(At(ch.l, ch.n, 2, 0))

\* ------------------------------------------------------------------------
\* Properties of Dot (checked under SpecDot)
\* ------------------------------------------------------------------------

\* what each variant requires of A (r1 x c1) and B (r2 x c2)
DotRequires(op, a, b) ==
    CASE op = "dot"     -> a.ncols = b.nrows
      [] op = "t_dot"   -> a.nrows = b.nrows
      [] op = "dot_t"   -> a.ncols = b.ncols
      [] op = "t_dot_t" -> a.nrows = b.ncols

\* the shape <<rows, columns>> each variant yields
DotShape(op, a, b) ==
    CASE op = "dot"     -> <<a.nrows, b.ncols>>
      [] op = "t_dot"   -> <<a.ncols, b.ncols>>
      [] op = "dot_t"   -> <<a.nrows, b.nrows>>
      [] op = "t_dot_t" -> <<a.ncols, b.nrows>>

\* entry (i, j), counted from 1, of m or of its transpose
Entry(m, transposed, i, j) ==
    IF transposed THEN m.data[(j - 1) * m.ncols + i] ELSE m.data[(i - 1) * m.ncols + j]

\* the product of the effective operands, entry by entry
Product(op, a, b) ==
    LET ta    == op \in {"t_dot", "t_dot_t"}
        tb    == op \in {"dot_t", "t_dot_t"}
        shape == DotShape(op, a, b)
        inner == IF ta THEN a.nrows ELSE a.ncols
    IN  [idx \in 1..(shape[1] * shape[2]) |->
            LET i == ((idx - 1) \div shape[2]) + 1
                j == ((idx - 1) % shape[2]) + 1
            IN  sum([k \in 1..inner |-> FMul(Entry(a, ta, i, k), Entry(b, tb, k, j))])]

\* C10: each Dot variant returns exactly when the inner dimensions of its
\* effective operands agree, and then returns their product with the
\* resulting shape; otherwise it panics and returns nothing.
C10_DotShapes ==
    mm.pc \in {"done", "panicked"} =>
        /\ mm.pc = "done" <=> DotRequires(mm.op, mm.a, mm.b)
        /\ mm.pc = "panicked" => mm.out = None
        /\ mm.pc = "done" =>
               /\ is_some(mm.out)
               /\ <<unwrap(mm.out).nrows, unwrap(mm.out).ncols>> = DotShape(mm.op, mm.a, mm.b)
               /\ unwrap(mm.out).data = Product(mm.op, mm.a, mm.b)

\* t_dot_t of a 1 x 2 and a 2 x 1 matrix returned a 2 x 2 matrix
C10_Witness ==
    /\ mm.pc = "done"
    /\ mm.op = "t_dot_t"
    /\ mm.a.nrows = 1 /\ mm.a.ncols = 2
    /\ mm.b.nrows = 2 /\ mm.b.ncols = 1
    /\ unwrap(mm.out).nrows = 2 /\ unwrap(mm.out).ncols = 2

====
